---- MODULE Spec2Model ----
(***************************************************************************)
(* State-machine model of the TerraformAI pipeline controller              *)
(* (src/src/orchestrator.py) and of the decoders and decision functions it *)
(* calls (src/src/agents/*.py, src/src/schemas.py).                        *)
(*                                                                         *)
(* run() is one coroutine.  Its only suspension points are the backend     *)
(* calls, so every action below is "the response of the outstanding call   *)
(* arrives and run() executes up to its next backend call".                *)
(*                                                                         *)
(* Texts are sequences of tokens (a fence Fence, a word, a newline, ...);  *)
(* a token stands for the characters it is written with.                   *)
(***************************************************************************)
EXTENDS Integers, Sequences, FiniteSets, TLC

(***************************************************************************)
(* Bounds of the exploration                                               *)
(***************************************************************************)
\* largest max_validation_iterations a run is constructed with
MaxIterations == 2

\* longest errors list given to should_regenerate when it is evaluated alone
MaxErrorEntries == 3

\* the longest response text, in tokens, given to parse_documentation
MaxDocTokens == 5

\* the longest response text, in tokens, given to the fence-stripping passes
MaxTextTokens == 6

\* most modules of a bundle, and most files of a module, given to
\* _save_terraform_files when it is evaluated alone
MaxModules == 2

MaxModuleFiles == 2

\* the longest response text, in tokens, given to the two passes of a stage
\* call when they are evaluated one after the other
MaxPassTokens == 7

\* the longest response text, in tokens, given to a decoder's fence
\* stripping when it is evaluated for each stage
MaxStripTokens == 4

\* how far beyond (and below) each limit of the validator schema the lengths
\* of the checked payloads go
MaxExcess == 1

(***************************************************************************)
(* Program constants                                                       *)
(***************************************************************************)
\* ValidatorOutput.errors: Field(max_length=10)
SchemaMaxErrors == 10

\* max_length of ValidationError.message and ValidationError.fix
MessageMaxLength == 100

FixMaxLength == 100

\* max_length of ValidatorOutput.summary
SummaryMaxLength == 200

\* the slice str(e)[:150] of the fabricated summaries
SummaryDetailLength == 150

\* session ids passed to run_async by each stage call
RequirementsSession == "requirements"

ArchitectureSession == "architecture"

GeneratorSession == "validation_loop"

ValidatorSessionOwn == "validator"

ValidatorSession == "validation_loop"

RegenerateSessionOwn == "regeneration"

RegenerateSession == "validation_loop"

DocumentationSession == "documentation"

\* _initialize_sessions: session_ids
SessionIds == {"requirements", "architecture", "validation_loop", "documentation"}

(***************************************************************************)
(* Python helpers on token sequences (0-based offsets, as in the source)   *)
(***************************************************************************)
\* s[a:b] for 0 <= a
Slice(s, a, b) == SubSeq(s, a + 1, b)

\* pat occurs in s at offset i
OccursAt(s, pat, i) ==
    /\ i >= 0
    /\ i + Len(pat) <= Len(s)
    /\ \A k \in 1..Len(pat) : s[i + k] = pat[k]

\* s.find(pat, start): least offset >= start, -1 when absent
Find(s, pat, start) ==
    IF \E i \in start..Len(s) : OccursAt(s, pat, i)
    THEN CHOOSE i \in start..Len(s) :
            /\ OccursAt(s, pat, i)
            /\ \A j \in start..(i - 1) : ~OccursAt(s, pat, j)
    ELSE -1

\* s.rfind(pat): greatest offset, -1 when absent
RFind(s, pat) ==
    IF \E i \in 0..Len(s) : OccursAt(s, pat, i)
    THEN CHOOSE i \in 0..Len(s) :
            /\ OccursAt(s, pat, i)
            /\ \A j \in (i + 1)..Len(s) : ~OccursAt(s, pat, j)
    ELSE -1

\* pat in s
Contains(s, pat) == Find(s, pat, 0) >= 0

\* s.startswith(pat)
StartsWith(s, pat) == OccursAt(s, pat, 0)

IsSpace(t) == t \in {" ", "\n"}

RECURSIVE LStrip(_)
LStrip(s) == IF s # <<>> /\ IsSpace(Head(s)) THEN LStrip(Tail(s)) ELSE s

RECURSIVE RStrip(_)
RStrip(s) ==
    IF s # <<>> /\ IsSpace(s[Len(s)]) THEN RStrip(SubSeq(s, 1, Len(s) - 1)) ELSE s

\* s.strip()
Strip(s) == RStrip(LStrip(s))

\* d.get(k, default) on a record used as a dict
Get(d, k, default) == IF k \in DOMAIN d THEN d[k] ELSE default

RECURSIVE Flatten(_)
Flatten(ss) == IF ss = <<>> THEN <<>> ELSE Head(ss) \o Flatten(Tail(ss))

(***************************************************************************)
(* Backend responses.  A response is what run_async delivers for one call: *)
(*   backend  "ok" or "unavailable" (the retry budget was exhausted and    *)
(*            run_async raised)                                            *)
(*   err      result of json.loads on the fence-stripped text: "none", or  *)
(*            the class of the JSONDecodeError                             *)
(*   precond  the text satisfies the precondition of the repair that       *)
(*            parse_generated_terraform applies for that error class       *)
(*   reparse  json.loads succeeds on the repaired text                     *)
(*   value    the value json.loads yields when it succeeds                 *)
(***************************************************************************)
JsonErrors == {"none", "delimiter", "unterminated", "other"}

Response(b, e, p, r, v) ==
    [backend |-> b, err |-> e, precond |-> p, reparse |-> r, value |-> v]

Unavailable(v) == Response("unavailable", "none", FALSE, FALSE, v)

ResponsesOver(values) ==
    { Response("ok", e, p, r, v) :
        e \in JsonErrors, p \in BOOLEAN, r \in BOOLEAN, v \in values }
    \cup { Unavailable(v) : v \in values }

\* the text is well-formed JSON as delivered
WellFormed(resp) == resp.backend = "ok" /\ resp.err = "none"

\* one of the two repairs of sec. 4.2 turns the text into well-formed JSON
Repairable(resp) ==
    /\ resp.backend = "ok"
    /\ resp.err \in {"delimiter", "unterminated"}
    /\ resp.precond
    /\ resp.reparse

Decoded(v) == [raised |-> FALSE, value |-> v]

Raised(v) == [raised |-> TRUE, value |-> v]

(***************************************************************************)
(* Stage decoders                                                          *)
(***************************************************************************)
\* parse_requirements: json.loads, ValueError on JSONDecodeError
ParseRequirements(resp) ==
    IF resp.err = "none" THEN Decoded(resp.value) ELSE Raised(resp.value)

ParseArchitectureLenient(resp) == Decoded(resp.value)

\* parse_architecture: json.loads, ValueError on JSONDecodeError
ParseArchitecture(resp) ==
    IF resp.err = "none" THEN Decoded(resp.value) ELSE Raised(resp.value)

ParseGeneratedTerraformNoRepair(resp) ==
    IF resp.err = "none" THEN Decoded(resp.value) ELSE Raised(resp.value)

ParseGeneratedTerraformDefault(resp) == Decoded(resp.value)

\* parse_generated_terraform: json.loads, one repair attempt chosen by the
\* error class, ValueError when the text still does not parse
ParseGeneratedTerraform(resp) ==
    IF resp.err = "none" THEN Decoded(resp.value)
    ELSE IF resp.err = "delimiter" /\ resp.precond /\ resp.reparse
         THEN Decoded(resp.value)
    ELSE IF resp.err = "unterminated" /\ resp.precond /\ resp.reparse
         THEN Decoded(resp.value)
    ELSE Raised(resp.value)

(***************************************************************************)
(* Validation results (schemas.py ValidationError / ValidatorOutput)       *)
(***************************************************************************)
Severities == {"error", "warning", "info"}

ValidationError(sev, file, message, fix) ==
    [severity |-> sev, file |-> file, message |-> message, fix |-> fix]

ValidatorOutput(status, syn, conf, errs, cnt, summary) ==
    [validation_status |-> status, syntax_valid |-> syn,
     configuration_valid |-> conf, errors |-> errs,
     error_count |-> cnt, summary |-> summary]

ValidationErrorValidNoLength(e) ==
    /\ DOMAIN e = {"severity", "file", "message", "fix"}
    /\ e.severity \in Severities

\* pydantic validation of ValidationError(**entry)
ValidationErrorValid(e) ==
    /\ DOMAIN e = {"severity", "file", "message", "fix"}
    /\ e.severity \in Severities
    /\ Len(e.message) <= MessageMaxLength
    /\ Len(e.fix) <= FixMaxLength

\* pydantic validation of ValidatorOutput(**data)
ValidatorOutputValid(d) ==
    /\ {"validation_status", "syntax_valid", "configuration_valid",
        "error_count", "summary"} \subseteq DOMAIN d
    /\ d.validation_status \in {"passed", "failed"}
    /\ d.syntax_valid \in BOOLEAN
    /\ d.configuration_valid \in BOOLEAN
    /\ d.error_count \in Int
    /\ Len(d.summary) <= SummaryMaxLength
    /\ "errors" \in DOMAIN d =>
          /\ Len(d.errors) <= SchemaMaxErrors
          /\ \A i \in 1..Len(d.errors) : ValidationErrorValid(d.errors[i])

\* str(e) of the exception caught by parse_validation_results
ExceptionText(resp) == Get(resp, "detail", "Expecting value")

\* the slice s[:n]
Prefix(s, n) == IF Len(s) <= n THEN s ELSE SubSeq(s, 1, n)

ParseErrorResultWarning(detail) ==
    ValidatorOutput("passed", TRUE, FALSE,
        << ValidationError("warning", "unknown", "JSON parsing failed",
                           "Check response format") >>,
        1, "Parse error: " \o Prefix(detail, SummaryDetailLength))

\* the result fabricated on json.JSONDecodeError
ParseErrorResult(detail) ==
    ValidatorOutput("failed", TRUE, FALSE,
        << ValidationError("error", "unknown", "JSON parsing failed",
                           "Check response format") >>,
        1, "Parse error: " \o Prefix(detail, SummaryDetailLength))

\* the result fabricated on PydanticValidationError
SchemaErrorResult(detail) ==
    ValidatorOutput("failed", TRUE, FALSE,
        << ValidationError("error", "unknown", "Schema validation failed",
                           "Check ValidatorOutput schema") >>,
        1, "Validation error: " \o Prefix(detail, SummaryDetailLength))

\* ValidatorOutput(...): the constructor validates the fields it is given
Construct(v) == IF ValidatorOutputValid(v) THEN Decoded(v) ELSE Raised(v)

ParseValidationResultsRecount(resp) ==
    IF resp.err # "none" THEN Construct(ParseErrorResult(ExceptionText(resp)))
    ELSE IF ~ValidatorOutputValid(resp.value)
    THEN Construct(SchemaErrorResult(ExceptionText(resp)))
    ELSE Decoded(ValidatorOutput(resp.value.validation_status,
                                 resp.value.syntax_valid,
                                 resp.value.configuration_valid,
                                 Get(resp.value, "errors", <<>>),
                                 Len(Get(resp.value, "errors", <<>>)),
                                 resp.value.summary))

\* parse_validation_results: both exceptions are caught and replaced by a
\* fabricated failed result
ParseValidationResults(resp) ==
    IF resp.err # "none" THEN Construct(ParseErrorResult(ExceptionText(resp)))
    ELSE IF ~ValidatorOutputValid(resp.value)
    THEN Construct(SchemaErrorResult(ExceptionText(resp)))
    ELSE Decoded(ValidatorOutput(resp.value.validation_status,
                                 resp.value.syntax_valid,
                                 resp.value.configuration_valid,
                                 Get(resp.value, "errors", <<>>),
                                 resp.value.error_count,
                                 resp.value.summary))

ShouldRegenerateStatusOnly(v) == v.validation_status = "failed"

ShouldRegenerateAnyEntry(v) ==
    v.validation_status = "failed" \/ Len(v.errors) > 0

ShouldRegenerateErrorsOnly(v) ==
    \E i \in 1..Len(v.errors) : v.errors[i].severity = "error"

\* should_regenerate
ShouldRegenerate(v) ==
    IF v.validation_status = "failed" THEN TRUE
    ELSE \E i \in 1..Len(v.errors) : v.errors[i].severity = "error"

FeedbackEntryNoFix(label, e) ==
    [kind |-> "entry", file |-> e.file, message |-> e.message,
     label |-> label, fix |-> ""]

\* get_feedback_for_regeneration: feedback_parts, joined by newlines.  An
\* entry part is the line "- [file] message" and the line "  label: fix".
FeedbackEntry(label, e) ==
    [kind |-> "entry", file |-> e.file, message |-> e.message,
     label |-> label, fix |-> e.fix]

FeedbackLine(text) ==
    [kind |-> "line", file |-> "", message |-> text, label |-> "", fix |-> ""]

EntriesOf(v, sev, label) ==
    LET sel == SelectSeq(v.errors, LAMBDA e : e.severity = sev)
    IN  [i \in 1..Len(sel) |-> FeedbackEntry(label, sel[i])]

GetFeedbackWithInfo(v) ==
    LET critical == EntriesOf(v, "error", "Fix")
        warnings == EntriesOf(v, "warning", "Suggestion")
        notes == EntriesOf(v, "info", "Note")
    IN  << FeedbackLine("The Terraform code has the following issues that need to be fixed:") >>
        \o (IF critical # <<>>
            THEN << FeedbackLine("**CRITICAL ERRORS:**") >> \o critical
            ELSE <<>>)
        \o (IF warnings # <<>>
            THEN << FeedbackLine("**WARNINGS:**") >> \o warnings
            ELSE <<>>)
        \o (IF notes # <<>>
            THEN << FeedbackLine("**INFO:**") >> \o notes
            ELSE <<>>)

GetFeedbackWarningsFirst(v) ==
    LET critical == EntriesOf(v, "error", "Fix")
        warnings == EntriesOf(v, "warning", "Suggestion")
    IN  << FeedbackLine("The Terraform code has the following issues that need to be fixed:") >>
        \o (IF warnings # <<>>
            THEN << FeedbackLine("**WARNINGS:**") >> \o warnings
            ELSE <<>>)
        \o (IF critical # <<>>
            THEN << FeedbackLine("**CRITICAL ERRORS:**") >> \o critical
            ELSE <<>>)

GetFeedbackForRegeneration(v) ==
    LET critical == EntriesOf(v, "error", "Fix")
        warnings == EntriesOf(v, "warning", "Suggestion")
    IN  << FeedbackLine("The Terraform code has the following issues that need to be fixed:") >>
        \o (IF critical # <<>>
            THEN << FeedbackLine("**CRITICAL ERRORS:**") >> \o critical
            ELSE <<>>)
        \o (IF warnings # <<>>
            THEN << FeedbackLine("**WARNINGS:**") >> \o warnings
            ELSE <<>>)

(***************************************************************************)
(* Documentation decoder and the two file writers                          *)
(***************************************************************************)
\* Optional[str] fields of DocumentationOutput that are None
None == << "<None>" >>

TruthyNotNone(t) == t # None

\* truthiness of an Optional[str]
Truthy(t) == t # None /\ t # <<>>

DocumentationOutput(readme) ==
    [readme |-> readme, deployment_guide |-> None,
     architecture_diagram |-> None, security_guide |-> None,
     troubleshooting |-> None]

\* the token of a code-fence marker (three backquotes)
Fence == "<fence>"

DefaultHeading == << "#", "Infrastructure Documentation", "\n", "\n" >>

ParseDocumentationRaw(agent_response) ==
    DocumentationOutput(Strip(agent_response))

\* parse_documentation
ParseDocumentation(agent_response) ==
    LET r0 == Strip(agent_response)
        mdStart == Find(r0, << Fence, "markdown" >>, 0) + 2
        mdEnd == Find(r0, << Fence >>, mdStart)
        gStart == Find(r0, << Fence >>, 0) + 1
        gEnd == RFind(r0, << Fence >>)
        r1 == IF Contains(r0, << Fence, "markdown" >>)
              THEN IF mdEnd > mdStart THEN Strip(Slice(r0, mdStart, mdEnd)) ELSE r0
              ELSE IF StartsWith(r0, << Fence >>)
                      /\ Contains(Slice(r0, 1, Len(r0)), << Fence >>)
                   THEN IF gEnd > gStart THEN Strip(Slice(r0, gStart, gEnd)) ELSE r0
                   ELSE r0
        r2 == Strip(r1)
        r3 == IF ~StartsWith(r2, << "#" >>) /\ ~Contains(r2, << "\n", "#" >>)
              THEN DefaultHeading \o r2
              ELSE r2
    IN  DocumentationOutput(r3)

\* writing content to path in a file tree held as a set of files
WriteFile(fs, path, content) ==
    { f \in fs : f.path # path } \cup { [path |-> path, content |-> content] }

RECURSIVE ApplyWrites(_, _)
ApplyWrites(fs, writes) ==
    IF writes = <<>> THEN fs
    ELSE ApplyWrites(WriteFile(fs, Head(writes).path, Head(writes).content),
                     Tail(writes))

RECURSIVE SetToSeq(_)
SetToSeq(S) ==
    IF S = {} THEN <<>>
    ELSE LET x == CHOOSE y \in S : TRUE IN << x >> \o SetToSeq(S \ {x})

\* file_mappings of _save_terraform_files
FileMappings ==
    << << "main_tf", "main.tf" >>, << "variables_tf", "variables.tf" >>,
       << "outputs_tf", "outputs.tf" >>, << "provider_tf", "provider.tf" >>,
       << "terraform_tfvars_example", "terraform.tfvars.example" >> >>

ModuleWrites(module) ==
    LET name == Get(module, "module_name", "unknown")
        files == Get(module, "files", <<>>)
    IN  [i \in 1..Len(files) |->
            [path |-> << "modules", name, Get(files[i], "filename", "unknown.tf") >>,
             content |-> Get(files[i], "content", "")]]

EnvironmentWrites(env_name, env_config) ==
    LET present == SelectSeq(FileMappings, LAMBDA m : m[1] \in DOMAIN env_config)
    IN  [i \in 1..Len(present) |->
            [path |-> << "environments", env_name, present[i][2] >>,
             content |-> env_config[present[i][1]]]]

RootFileWrite(code, key, default) ==
    IF key \in DOMAIN code
    THEN << [path |-> << Get(code[key], "filename", default) >>,
             content |-> Get(code[key], "content", "")] >>
    ELSE <<>>

\* _save_terraform_files: the writes in the order the code performs them
TerraformWrites(code) ==
    LET modules == Get(code, "modules", <<>>)
        environments == Get(code, "environments", <<>>)
        envs == SetToSeq(DOMAIN environments)
        legacy == Get(code, "files", <<>>)
    IN  Flatten([i \in 1..Len(modules) |-> ModuleWrites(modules[i])])
        \o Flatten([i \in 1..Len(envs) |->
                       EnvironmentWrites(envs[i], environments[envs[i]])])
        \o [i \in 1..Len(legacy) |->
               [path |-> << Get(legacy[i], "filename", "unknown.tf") >>,
                content |-> Get(legacy[i], "content", "")]]
        \o RootFileWrite(code, "provider_file", "provider.tf")
        \o RootFileWrite(code, "variables_file", "variables.tf")
        \o RootFileWrite(code, "outputs_file", "outputs.tf")

SaveTerraformFilesNone(fs, code) == fs

\* a writer that keeps the file already at a path
SaveTerraformFilesKeepFirst(fs, code) ==
    LET writes == TerraformWrites(code)
    IN  ApplyWrites(fs, [i \in 1..Len(writes) |-> writes[Len(writes) + 1 - i]])

SaveTerraformFiles(fs, code) == ApplyWrites(fs, TerraformWrites(code))

\* save_documentation_to_files: the writes and the returned saved_files keys
DocumentationWrites(doc) ==
    << [path |-> << "README.md" >>, content |-> doc.readme, key |-> "readme"] >>
    \o (IF Truthy(doc.deployment_guide)
        THEN << [path |-> << "DEPLOYMENT.md" >>, content |-> doc.deployment_guide,
                 key |-> "deployment_guide"] >> ELSE <<>>)
    \o (IF Truthy(doc.security_guide)
        THEN << [path |-> << "SECURITY.md" >>, content |-> doc.security_guide,
                 key |-> "security_guide"] >> ELSE <<>>)
    \o (IF Truthy(doc.troubleshooting)
        THEN << [path |-> << "TROUBLESHOOTING.md" >>, content |-> doc.troubleshooting,
                 key |-> "troubleshooting"] >> ELSE <<>>)
    \o (IF Truthy(doc.architecture_diagram)
        THEN << [path |-> << "architecture.mmd" >>, content |-> doc.architecture_diagram,
                 key |-> "diagram"] >> ELSE <<>>)

SaveDocumentationToFiles(fs, doc) == ApplyWrites(fs, DocumentationWrites(doc))

\* saved_files, the dict save_documentation_to_files returns
SavedFiles(doc) ==
    LET writes == DocumentationWrites(doc)
    IN  [k \in { writes[i].key : i \in DOMAIN writes } |->
            (CHOOSE w \in { writes[i] : i \in DOMAIN writes } : w.key = k).path]

(***************************************************************************)
(* Values the backend may deliver                                          *)
(***************************************************************************)
UserInput == "Create a web app with Cloud Run"

\* one payload in the shape the agent's prompt asks for, which lacks the
\* required fields of RequirementsOutput, and one that has them
RequirementsPool ==
    { [application_name |-> "shop"],
      [project_name |-> "blog", infrastructure_type |-> "web",
       services |-> << "cloud_run" >>, environment |-> "dev"] }

\* one payload without description and deployment_order, one complete
ArchitecturePool ==
    { [architecture_name |-> "web", modules |-> << [module_name |-> "vpc"] >>],
      [architecture_name |-> "api", description |-> "an api",
       modules |-> << [module_name |-> "run", purpose |-> "serve",
                       resources |-> <<>>, outputs |-> <<>>,
                       dependencies |-> <<>>] >>,
       deployment_order |-> << "run" >>] }

BundleA ==
    [terraform_version |-> "1.5",
     modules |-> << [module_name |-> "vpc",
                     files |-> << [filename |-> "main.tf", content |-> "vpc v1"] >>] >>,
     environments |-> [dev |-> [main_tf |-> "dev v1", provider_tf |-> "google"]]]

\* BundleA lacks the module path and three environment files; BundleB has
\* every required field of GeneratorOutput
BundleB ==
    [terraform_version |-> "1.5",
     modules |-> << [module_name |-> "vpc", path |-> "modules/vpc",
                     files |-> << [filename |-> "main.tf", content |-> "vpc v2"],
                                  [filename |-> "outputs.tf", content |-> "out"] >>] >>,
     environments |-> [dev |-> [main_tf |-> "dev v2", variables_tf |-> "vars",
                                outputs_tf |-> "outs", provider_tf |-> "google",
                                terraform_tfvars_example |-> "ex"]]]

BundlePool == { BundleA, BundleB }

Entry(sev) == ValidationError(sev, "a.tf", "x", "y")

\* validator payloads: the status/severity combinations that matter to
\* should_regenerate and to the feedback, and one payload that violates the
\* schema
ValidationPool ==
    { ValidatorOutput("passed", TRUE, TRUE, <<>>, 0, "ok"),
      ValidatorOutput("passed", TRUE, TRUE, << Entry("warning") >>, 1, "warn"),
      ValidatorOutput("passed", TRUE, FALSE, << Entry("error") >>, 1, "err"),
      ValidatorOutput("failed", TRUE, FALSE, <<>>, 0, "bad"),
      ValidatorOutput("failed", TRUE, FALSE, << Entry("info") >>, 1, "note"),
      ValidatorOutput("unknown", TRUE, TRUE, <<>>, 0, "?") }

DocTextPool ==
    { << "#", "Title", "\n", "text" >>, << "not json and no heading" >> }

RequirementsResponses == ResponsesOver(RequirementsPool)

ArchitectureResponses == ResponsesOver(ArchitecturePool)

GeneratorResponses == ResponsesOver(BundlePool)

ValidatorResponses ==
    { Response("ok", e, FALSE, FALSE, v) : e \in {"none", "other"}, v \in ValidationPool }
    \cup { Unavailable(ValidatorOutput("failed", TRUE, TRUE, <<>>, 0, "")) }

DocumentationResponses ==
    { [backend |-> "ok", text |-> t] : t \in DocTextPool }
    \cup { [backend |-> "unavailable", text |-> <<>>] }

\* what a response is, whatever the controller makes of it
Classify(resp) ==
    IF resp.backend = "unavailable" THEN "unavailable"
    ELSE IF WellFormed(resp) THEN "ok"
    ELSE IF Repairable(resp) THEN "repairable"
    ELSE "malformed"

\* the generator's decoder is the one with repair heuristics: a response it
\* can repair counts as decodable
ClassifyGenerated(resp) ==
    IF Classify(resp) = "repairable" THEN "ok" ELSE Classify(resp)

ClassifyValidation(resp) ==
    IF WellFormed(resp) /\ ~ValidatorOutputValid(resp.value) THEN "schema"
    ELSE IF Classify(resp) = "repairable" THEN "malformed"
    ELSE Classify(resp)

\* the required fields of the first three stages' schemas; no decoder of
\* these stages instantiates them
HasFields(d, keys) == keys \subseteq DOMAIN d

RequirementsOutputValid(d) ==
    HasFields(d, {"project_name", "infrastructure_type", "services", "environment"})

ArchitectureOutputValid(d) ==
    /\ HasFields(d, {"architecture_name", "description", "modules", "deployment_order"})
    /\ \A i \in 1..Len(d.modules) :
         HasFields(d.modules[i], {"module_name", "purpose", "resources",
                                  "outputs", "dependencies"})

GeneratorOutputValid(d) ==
    /\ HasFields(d, {"terraform_version", "modules", "environments"})
    /\ \A i \in 1..Len(d.modules) :
         /\ HasFields(d.modules[i], {"module_name", "path", "files"})
         /\ \A j \in 1..Len(d.modules[i].files) :
              HasFields(d.modules[i].files[j], {"filename", "content"})
    /\ \A e \in DOMAIN d.environments :
         HasFields(d.environments[e],
                   {"main_tf", "variables_tf", "outputs_tf", "provider_tf",
                    "terraform_tfvars_example"})

(***************************************************************************)
(* State                                                                   *)
(***************************************************************************)
VARIABLES
    pc,                         \* the call run() is suspended on, or its end
    max_validation_iterations,  \* self.max_validation_iterations
    sessions,                   \* session ids present in session_service
    calls,                      \* the backend calls issued so far, in order
    requirements,               \* locals of run()
    architecture,
    terraform_code,
    validated_code,
    final_validation_results,   \* run()'s validation_results
    documentation,
    current_code,               \* locals of _validation_loop
    validation_results,
    iteration,
    regenerate,                 \* value of should_regenerate(validation_results)
    loop_state,                 \* state of the loop's state machine (sec. 4.5)
    files,                      \* the file tree under output_dir
    result,                     \* the dict returned by run()
    arg,                        \* argument of a function evaluated on its own
    ret                         \* and its return value

vars ==
    << pc, max_validation_iterations, sessions, calls, requirements,
       architecture, terraform_code, validated_code, final_validation_results,
       documentation, current_code, validation_results, iteration, regenerate,
       loop_state, files, result, arg, ret >>

\* a local that is not bound yet
Unbound == [unbound |-> TRUE]

Call(stage, session, prompt) ==
    [stage |-> stage, session |-> session, prompt |-> prompt,
     outcome |-> "pending", value |-> Unbound]

ReturnedNotAwaited(c, v) == calls

\* the outstanding call has returned with a response of class c, which the
\* stage's decoder turned into v (Unbound when it raised)
Returned(c, v) ==
    [calls EXCEPT ![Len(calls)].outcome = c, ![Len(calls)].value = v]

Init ==
    /\ pc = "start"
    /\ max_validation_iterations \in -1..MaxIterations
    /\ sessions = {}
    /\ calls = <<>>
    /\ requirements = Unbound
    /\ architecture = Unbound
    /\ terraform_code = Unbound
    /\ validated_code = Unbound
    /\ final_validation_results = Unbound
    /\ validation_results = Unbound
    /\ documentation = Unbound
    /\ current_code = Unbound
    /\ iteration = 0
    /\ regenerate = FALSE
    /\ loop_state = "Idle"
    /\ files = {}
    /\ result = Unbound
    /\ arg = Unbound
    /\ ret = FALSE

(***************************************************************************)
(* The validation loop's decisions                                         *)
(***************************************************************************)
LoopContinuesAtLeastOnce(i, max) == i = 0 \/ i < max

LoopContinuesInclusive(i, max) == i <= max

\* while iteration < self.max_validation_iterations
LoopContinues(i, max) == i < max

NextIterationStuck(i) == i

\* iteration += 1
NextIteration(i) == i + 1

LoopExhaustedNever(i, max) == FALSE

LoopExhaustedLate(i, max) == i > max

\* if iteration >= self.max_validation_iterations: return anyway
LoopExhausted(i, max) == i >= max

LoopReturnInitial(initial, current, v) == [code |-> initial, validation |-> v]

\* return current_code, validation_results
LoopReturn(initial, current, v) == [code |-> current, validation |-> v]

ReplaceBundleKeepModules(previous, fresh) ==
    [fresh EXCEPT !.modules = previous.modules]

\* current_code = parse_generated_terraform(response_text) in the loop
ReplaceBundle(previous, fresh) == fresh

RunResultInitialCode(req, arch, initial, validated, v, doc) ==
    [requirements |-> req, architecture |-> arch, terraform_code |-> initial,
     validation_results |-> v, documentation |-> doc,
     output_dir |-> "output_dir"]

\* the dict run() returns; terraform_code (initial) is the other bundle in
\* scope at that point
RunResult(req, arch, initial, validated, v, doc) ==
    [requirements |-> req, architecture |-> arch, terraform_code |-> validated,
     validation_results |-> v, documentation |-> doc,
     output_dir |-> "output_dir"]

\* arch_summary of _generate_documentation, the only data in its prompt
ArchSummary(arch) ==
    LET modules == Get(arch, "modules", <<>>)
    IN  [name |-> Get(arch, "architecture_name", "Infrastructure"),
         modules |-> [i \in 1..Len(modules) |-> modules[i].module_name],
         environment |-> Get(arch, "environment", "production")]

(***************************************************************************)
(* run()                                                                   *)
(***************************************************************************)
RunLocals ==
    << requirements, architecture, terraform_code, validated_code,
       final_validation_results, documentation >>

LoopLocals ==
    << current_code, validation_results, iteration, regenerate, loop_state >>

\* an exception leaves run(): nothing more is called, written or returned
Abort(class) ==
    /\ pc' = "raised"
    /\ calls' = Returned(class, Unbound)
    /\ UNCHANGED << max_validation_iterations, sessions, RunLocals, LoopLocals,
                    files, result, arg, ret >>

\* the sets of session ids for which both create_session and get_session
\* raise: none, any single one, or all of them
SessionFailures == { {} } \cup { {id} : id \in SessionIds } \cup { SessionIds }

StartStrict ==
    /\ pc = "start"
    /\ \E missing \in SessionFailures :
         /\ sessions' = SessionIds \ missing
         /\ IF missing = {}
            THEN /\ calls' = << Call("requirements", RequirementsSession, UserInput) >>
                 /\ pc' = "requirements"
            ELSE /\ calls' = calls
                 /\ pc' = "raised"
    /\ UNCHANGED << max_validation_iterations, RunLocals, LoopLocals, files,
                    result, arg, ret >>

\* _initialize_sessions, then run() up to the requirements call.  For each
\* id create_session either succeeds or raises; get_session then either
\* succeeds or raises, which is swallowed.
Start ==
    /\ pc = "start"
    /\ \E missing \in SessionFailures : sessions' = SessionIds \ missing
    /\ calls' = << Call("requirements", RequirementsSession, UserInput) >>
    /\ pc' = "requirements"
    /\ UNCHANGED << max_validation_iterations, RunLocals, LoopLocals, files,
                    result, arg, ret >>

\* _extract_requirements returns; run() goes on to _design_architecture
RequirementsReturns ==
    /\ pc = "requirements"
    /\ \E resp \in RequirementsResponses :
        LET d == ParseRequirements(resp) IN
        IF resp.backend = "unavailable" \/ d.raised
        THEN Abort(Classify(resp))
        ELSE /\ requirements' = d.value
             /\ calls' = Append(Returned(Classify(resp), d.value),
                                Call("architecture", ArchitectureSession, d.value))
             /\ pc' = "architecture"
             /\ UNCHANGED << max_validation_iterations, sessions, architecture,
                             terraform_code, validated_code,
                             final_validation_results, documentation,
                             LoopLocals, files, result, arg, ret >>

\* _design_architecture returns; run() goes on to _generate_terraform
ArchitectureReturns ==
    /\ pc = "architecture"
    /\ \E resp \in ArchitectureResponses :
        LET d == ParseArchitecture(resp) IN
        IF resp.backend = "unavailable" \/ d.raised
        THEN Abort(Classify(resp))
        ELSE /\ architecture' = d.value
             /\ calls' = Append(Returned(Classify(resp), d.value),
                                Call("generate", GeneratorSession, d.value))
             /\ pc' = "generate"
             /\ loop_state' = "Generating"
             /\ UNCHANGED << max_validation_iterations, sessions, requirements,
                             terraform_code, validated_code,
                             final_validation_results, documentation,
                             current_code, validation_results, iteration,
                             regenerate, files, result, arg, ret >>

\* _generate_terraform returns; run() enters _validation_loop, which issues
\* its first validation call, or falls through the while loop to the final
\* return, where validation_results is not bound (UnboundLocalError)
GenerateReturns ==
    /\ pc = "generate"
    /\ \E resp \in GeneratorResponses :
        LET d == ParseGeneratedTerraform(resp) IN
        IF resp.backend = "unavailable" \/ d.raised
        THEN Abort(ClassifyGenerated(resp))
        ELSE /\ terraform_code' = d.value
             /\ current_code' = d.value
             /\ IF LoopContinues(0, max_validation_iterations)
                THEN /\ iteration' = NextIteration(0)
                     /\ calls' = Append(Returned(ClassifyGenerated(resp), d.value),
                                        Call("validate", ValidatorSession, d.value))
                     /\ pc' = "validate"
                     /\ loop_state' = "Validating"
                ELSE /\ iteration' = 0
                     /\ calls' = Returned(ClassifyGenerated(resp), d.value)
                     /\ pc' = "raised"
                     /\ loop_state' = "Unbound"
             /\ UNCHANGED << max_validation_iterations, sessions, requirements,
                             architecture, validated_code,
                             final_validation_results, documentation,
                             validation_results, regenerate, files, result,
                             arg, ret >>

\* the loop has returned ret to run(), which logs the verdict and goes on to
\* _generate_documentation
LoopReturns(ret_pair, state, class, v) ==
    /\ validated_code' = ret_pair.code
    /\ final_validation_results' = ret_pair.validation
    /\ loop_state' = state
    /\ calls' = Append(Returned(class, v),
                       Call("documentation", DocumentationSession,
                            ArchSummary(architecture)))
    /\ pc' = "documentation"

\* _validate_terraform returns inside the loop: accept, stop at the cap, or
\* format the feedback and issue the regeneration call
ValidateReturns ==
    /\ pc = "validate"
    /\ \E resp \in ValidatorResponses :
        LET d == ParseValidationResults(resp)
            v == d.value
            class == ClassifyValidation(resp)
        IN
        IF resp.backend = "unavailable" \/ d.raised
        THEN Abort(class)
        ELSE /\ validation_results' = v
             /\ regenerate' = ShouldRegenerate(v)
             /\ IF ~ShouldRegenerate(v)
                THEN LoopReturns(LoopReturn(terraform_code, current_code, v),
                                 "Accepted", class, v)
                ELSE IF LoopExhausted(iteration, max_validation_iterations)
                THEN LoopReturns(LoopReturn(terraform_code, current_code, v),
                                 "Exhausted", class, v)
                ELSE /\ calls' = Append(Returned(class, v),
                                        Call("regenerate", RegenerateSession,
                                             GetFeedbackForRegeneration(v)))
                     /\ pc' = "regenerate"
                     /\ loop_state' = "Regenerating"
                     /\ UNCHANGED << validated_code, final_validation_results >>
             /\ UNCHANGED << max_validation_iterations, sessions, requirements,
                             architecture, terraform_code, documentation,
                             current_code, iteration, files, result, arg, ret >>

\* the regeneration call returns: current_code is replaced and the while
\* condition is tested again
RegenerateReturns ==
    /\ pc = "regenerate"
    /\ \E resp \in GeneratorResponses :
        LET d == ParseGeneratedTerraform(resp) IN
        IF resp.backend = "unavailable" \/ d.raised
        THEN Abort(ClassifyGenerated(resp))
        ELSE /\ current_code' = ReplaceBundle(current_code, d.value)
             /\ IF LoopContinues(iteration, max_validation_iterations)
                THEN /\ iteration' = NextIteration(iteration)
                     /\ calls' = Append(Returned(ClassifyGenerated(resp), d.value),
                                        Call("validate", ValidatorSession,
                                             ReplaceBundle(current_code, d.value)))
                     /\ pc' = "validate"
                     /\ loop_state' = "Validating"
                     /\ UNCHANGED << validated_code, final_validation_results >>
                ELSE /\ iteration' = iteration
                     /\ LoopReturns(LoopReturn(terraform_code,
                                               ReplaceBundle(current_code, d.value),
                                               validation_results),
                                    "FellThrough", ClassifyGenerated(resp), d.value)
             /\ UNCHANGED << max_validation_iterations, sessions, requirements,
                             architecture, terraform_code, documentation,
                             validation_results, regenerate, files, result,
                             arg, ret >>

\* _generate_documentation returns; run() writes the files and returns
DocumentationReturns ==
    /\ pc = "documentation"
    /\ \E resp \in DocumentationResponses :
        IF resp.backend = "unavailable"
        THEN Abort("unavailable")
        ELSE LET doc == ParseDocumentation(resp.text) IN
             /\ documentation' = doc
             /\ files' = SaveDocumentationToFiles(
                             SaveTerraformFiles(files, validated_code), doc)
             /\ result' = RunResult(requirements, architecture, terraform_code,
                                    validated_code, final_validation_results,
                                    doc)
             /\ calls' = Returned("ok", doc)
             /\ pc' = "done"
             /\ UNCHANGED << max_validation_iterations, sessions, requirements,
                             architecture, terraform_code, validated_code,
                             final_validation_results, LoopLocals, arg, ret >>

Next ==
    \/ Start
    \/ RequirementsReturns
    \/ ArchitectureReturns
    \/ GenerateReturns
    \/ ValidateReturns
    \/ RegenerateReturns
    \/ DocumentationReturns

Spec == Init /\ [][Next]_vars

\* the longest call log of a run: three stages before the loop, at most
\* MaxIterations validations with a regeneration after each, documentation
MaxCalls == 2 * MaxIterations + 4

\* the run under the assumption that every backend call eventually returns:
\* whenever run() is suspended on a call, the step that delivers its
\* response is eventually taken.  The call log is capped at MaxCalls.
NextLive == Len(calls) <= MaxCalls /\ Next

SpecLive == Init /\ [][NextLive]_vars /\ WF_vars(NextLive)

(***************************************************************************)
(* should_regenerate evaluated on its own, over every status and every     *)
(* list of severities up to MaxErrorEntries                                *)
(***************************************************************************)
RECURSIVE SeverityLists(_)
SeverityLists(n) ==
    IF n = 0 THEN { <<>> }
    ELSE SeverityLists(n - 1)
         \cup { Append(l, Entry(sev)) :
                  l \in { m \in SeverityLists(n - 1) : Len(m) = n - 1 },
                  sev \in Severities }

AllValidatorOutputs ==
    { ValidatorOutput(st, TRUE, TRUE, errs, Len(errs), "s") :
        st \in {"passed", "failed"}, errs \in SeverityLists(MaxErrorEntries) }

InitDecision ==
    /\ pc = "should_regenerate"
    /\ arg \in AllValidatorOutputs
    /\ ret = FALSE
    /\ max_validation_iterations = 1
    /\ sessions = {}
    /\ calls = <<>>
    /\ requirements = Unbound
    /\ architecture = Unbound
    /\ terraform_code = Unbound
    /\ validated_code = Unbound
    /\ final_validation_results = Unbound
    /\ validation_results = Unbound
    /\ documentation = Unbound
    /\ current_code = Unbound
    /\ iteration = 0
    /\ regenerate = FALSE
    /\ loop_state = "Idle"
    /\ files = {}
    /\ result = Unbound

EvalShouldRegenerate ==
    /\ pc = "should_regenerate"
    /\ ret' = ShouldRegenerate(arg)
    /\ pc' = "evaluated"
    /\ UNCHANGED << max_validation_iterations, sessions, calls, RunLocals,
                    LoopLocals, files, result, arg >>

NextDecision == EvalShouldRegenerate

SpecDecision == InitDecision /\ [][NextDecision]_vars

(***************************************************************************)
(* get_feedback_for_regeneration evaluated on its own, over every status   *)
(* and every list of up to MaxErrorEntries entries; the k-th entry of a    *)
(* list has a file, message and fix of its own                             *)
(***************************************************************************)
NumberedEntry(sev, k) ==
    ValidationError(sev, "f" \o ToString(k) \o ".tf", "message " \o ToString(k),
                    "fix " \o ToString(k))

RECURSIVE NumberedLists(_)
NumberedLists(n) ==
    IF n = 0 THEN { <<>> }
    ELSE NumberedLists(n - 1)
         \cup { Append(l, NumberedEntry(sev, n)) :
                  l \in { m \in NumberedLists(n - 1) : Len(m) = n - 1 },
                  sev \in Severities }

NumberedValidatorOutputs ==
    { ValidatorOutput(st, TRUE, TRUE, errs, Len(errs), "s") :
        st \in {"passed", "failed"}, errs \in NumberedLists(MaxErrorEntries) }

\* status failed, one error entry: file a.tf, message x, fix y
ScenarioResult ==
    ValidatorOutput("failed", TRUE, FALSE, << Entry("error") >>, 1, "s")

InitFeedback ==
    /\ pc = "get_feedback_for_regeneration"
    /\ arg \in NumberedValidatorOutputs \cup { ScenarioResult }
    /\ ret = FALSE
    /\ max_validation_iterations = 1
    /\ sessions = {}
    /\ calls = <<>>
    /\ requirements = Unbound
    /\ architecture = Unbound
    /\ terraform_code = Unbound
    /\ validated_code = Unbound
    /\ final_validation_results = Unbound
    /\ validation_results = Unbound
    /\ documentation = Unbound
    /\ current_code = Unbound
    /\ iteration = 0
    /\ regenerate = FALSE
    /\ loop_state = "Idle"
    /\ files = {}
    /\ result = Unbound

EvalGetFeedback ==
    /\ pc = "get_feedback_for_regeneration"
    /\ ret' = GetFeedbackForRegeneration(arg)
    /\ pc' = "formatted"
    /\ UNCHANGED << max_validation_iterations, sessions, calls, RunLocals,
                    LoopLocals, files, result, arg >>

NextFeedback == EvalGetFeedback

SpecFeedback == InitFeedback /\ [][NextFeedback]_vars

(***************************************************************************)
(* parse_documentation evaluated on its own, over every text of up to      *)
(* MaxDocTokens tokens                                                     *)
(***************************************************************************)
\* every sequence of at most n tokens of the alphabet
Texts(alphabet, n) == UNION { [1..k -> alphabet] : k \in 0..n }

\* the tokens parse_documentation tells apart, and a word
DocAlphabet == { Fence, "markdown", "#", "\n", "w" }

\* the locals of run() and of the loop when no run is in progress
NoRun ==
    /\ max_validation_iterations = 1
    /\ sessions = {}
    /\ calls = <<>>
    /\ requirements = Unbound
    /\ architecture = Unbound
    /\ terraform_code = Unbound
    /\ validated_code = Unbound
    /\ final_validation_results = Unbound
    /\ validation_results = Unbound
    /\ documentation = Unbound
    /\ current_code = Unbound
    /\ iteration = 0
    /\ regenerate = FALSE
    /\ loop_state = "Idle"
    /\ files = {}
    /\ result = Unbound

InitDoc ==
    /\ pc = "parse_documentation"
    /\ arg \in Texts(DocAlphabet, MaxDocTokens)
    /\ ret = FALSE
    /\ NoRun

EvalParseDocumentation ==
    /\ pc = "parse_documentation"
    /\ ret' = ParseDocumentation(arg)
    /\ pc' = "decoded"
    /\ UNCHANGED << max_validation_iterations, sessions, calls, RunLocals,
                    LoopLocals, files, result, arg >>

NextDoc == EvalParseDocumentation

SpecDoc == InitDoc /\ [][NextDoc]_vars

(***************************************************************************)
(* The two fence-stripping passes of a stage call, on token texts: a json  *)
(* fence marker is the two tokens Fence, "json".                           *)
(***************************************************************************)
JsonMarker == << Fence, "json" >>

StartsWithAny(s, openers) == \E o \in openers : StartsWith(s, << o >>)

\* the offset of the brace that closes the one at offset i (brace_count is
\* the count before the token at i is read), -1 when there is none
RECURSIVE MatchingBrace(_, _, _)
MatchingBrace(s, i, brace_count) ==
    IF i >= Len(s) THEN -1
    ELSE IF s[i + 1] = "{" THEN MatchingBrace(s, i + 1, brace_count + 1)
    ELSE IF s[i + 1] = "}"
         THEN IF brace_count - 1 = 0 THEN i
              ELSE MatchingBrace(s, i + 1, brace_count - 1)
    ELSE MatchingBrace(s, i + 1, brace_count)

\* the offset of the brace that closes the first "{" of the text, -1 when
\* there is no "{" or it is never closed
FirstObjectEnd(s) ==
    IF Find(s, << "{" >>, 0) >= 0
    THEN MatchingBrace(s, Find(s, << "{" >>, 0), 0)
    ELSE -1

\* the last part of _extract_response_text: the first balanced {...} of the
\* text if json.loads accepts it (loads), the whole text otherwise
BraceMatched(combined, loads) ==
    LET json_start_idx == Find(combined, << "{" >>, 0)
        i == FirstObjectEnd(combined)
    IN  IF i >= 0 /\ loads
        THEN Slice(combined, json_start_idx, i + 1)
        ELSE combined

ExtractResponseTextNoBraces(combined, loads) ==
    LET json_start == Find(combined, JsonMarker, 0) + 2
        json_end == Find(combined, << Fence >>, json_start)
        g_start == Find(combined, << Fence >>, 0) + 1
        g_end == Find(combined, << Fence >>, g_start)
        potential_json == Strip(Slice(combined, g_start, g_end))
    IN  IF Contains(combined, JsonMarker)
        THEN IF json_end > json_start
             THEN Strip(Slice(combined, json_start, json_end))
             ELSE combined
        ELSE IF Contains(combined, << Fence >>) /\ g_end > g_start
                /\ StartsWithAny(potential_json, {"{", "["})
             THEN potential_json
             ELSE combined

ExtractResponseTextLast(combined, loads) ==
    LET json_start == Find(combined, JsonMarker, 0) + 2
        json_end == RFind(combined, << Fence >>)
        g_start == Find(combined, << Fence >>, 0) + 1
        g_end == Find(combined, << Fence >>, g_start)
        potential_json == Strip(Slice(combined, g_start, g_end))
    IN  IF Contains(combined, JsonMarker)
        THEN IF json_end > json_start
             THEN Strip(Slice(combined, json_start, json_end))
             ELSE BraceMatched(combined, loads)
        ELSE IF Contains(combined, << Fence >>) /\ g_end > g_start
                /\ StartsWithAny(potential_json, {"{", "["})
             THEN potential_json
             ELSE BraceMatched(combined, loads)

\* _extract_response_text on the joined text parts of the events
ExtractResponseText(combined, loads) ==
    LET json_start == Find(combined, JsonMarker, 0) + 2
        json_end == Find(combined, << Fence >>, json_start)
        g_start == Find(combined, << Fence >>, 0) + 1
        g_end == Find(combined, << Fence >>, g_start)
        potential_json == Strip(Slice(combined, g_start, g_end))
    IN  IF Contains(combined, JsonMarker)
        THEN IF json_end > json_start
             THEN Strip(Slice(combined, json_start, json_end))
             ELSE BraceMatched(combined, loads)
        ELSE IF Contains(combined, << Fence >>) /\ g_end > g_start
                /\ StartsWithAny(potential_json, {"{", "["})
             THEN potential_json
             ELSE BraceMatched(combined, loads)

StripFencesAlways(agent_response, openers) ==
    LET response == Strip(agent_response)
        json_start == Find(response, JsonMarker, 0) + 2
        json_end == Find(response, << Fence >>, json_start)
        g_start == Find(response, << Fence >>, 0) + 1
        g_end == Find(response, << Fence >>, g_start)
        potential_json == Strip(Slice(response, g_start, g_end))
    IN  Strip(IF Contains(response, JsonMarker)
              THEN IF json_end > json_start
                   THEN Strip(Slice(response, json_start, json_end))
                   ELSE response
              ELSE IF Contains(response, << Fence >>) /\ g_end > g_start
                   THEN potential_json
                   ELSE response)

\* the fence stripping at the head of parse_requirements, parse_architecture
\* and parse_generated_terraform (openers "{" and "[") and of
\* parse_validation_results (opener "{" only)
StripFences(agent_response, openers) ==
    LET response == Strip(agent_response)
        json_start == Find(response, JsonMarker, 0) + 2
        json_end == Find(response, << Fence >>, json_start)
        g_start == Find(response, << Fence >>, 0) + 1
        g_end == Find(response, << Fence >>, g_start)
        potential_json == Strip(Slice(response, g_start, g_end))
    IN  Strip(IF Contains(response, JsonMarker)
              THEN IF json_end > json_start
                   THEN Strip(Slice(response, json_start, json_end))
                   ELSE response
              ELSE IF Contains(response, << Fence >>) /\ g_end > g_start
                      /\ StartsWithAny(potential_json, openers)
                   THEN potential_json
                   ELSE response)

\* the tokens the two passes tell apart, and a word
JsonAlphabet == { Fence, "json", "{", "}", "w" }

\* a response text, and whether json.loads accepts its first balanced
\* {...}, which matters only when there is one
InitText ==
    /\ pc = "normalize"
    /\ \E t \in Texts(JsonAlphabet, MaxTextTokens) :
         \E loads \in (IF FirstObjectEnd(t) >= 0 THEN BOOLEAN ELSE {FALSE}) :
            arg = [text |-> t, loads |-> loads]
    /\ ret = FALSE
    /\ NoRun

\* the invoker's pass, the decoder's pass, and the decoder's pass applied to
\* the invoker's output as _generate_terraform does
EvalNormalize ==
    /\ pc = "normalize"
    /\ ret' = [extracted |-> ExtractResponseText(arg.text, arg.loads),
               stripped |-> StripFences(arg.text, {"{", "["}),
               both |-> StripFences(ExtractResponseText(arg.text, arg.loads),
                                    {"{", "["})]
    /\ pc' = "normalized"
    /\ UNCHANGED << max_validation_iterations, sessions, calls, RunLocals,
                    LoopLocals, files, result, arg >>

NextText == EvalNormalize

SpecText == InitText /\ [][NextText]_vars

(***************************************************************************)
(* _save_terraform_files evaluated on its own, into an empty output        *)
(* directory, over bundles of up to MaxModules modules of up to            *)
(* MaxModuleFiles files.  Module names and file names are drawn from two   *)
(* names each, so that they repeat; every file has a content of its own.   *)
(***************************************************************************)
ModuleNames == { "vpc", "run" }

FileNames == { "main.tf", "outputs.tf" }

\* the lists of at most k files of the i-th module
RECURSIVE ModuleFileLists(_, _)
ModuleFileLists(i, k) ==
    IF k = 0 THEN { <<>> }
    ELSE ModuleFileLists(i, k - 1)
         \cup { Append(l, [filename |-> f,
                           content |-> "module " \o ToString(i) \o " file "
                                       \o ToString(k)]) :
                  l \in { m \in ModuleFileLists(i, k - 1) : Len(m) = k - 1 },
                  f \in FileNames }

RECURSIVE ModuleLists(_)
ModuleLists(n) ==
    IF n = 0 THEN { <<>> }
    ELSE ModuleLists(n - 1)
         \cup { Append(l, [module_name |-> name,
                           path |-> "modules/" \o name,
                           files |-> fl]) :
                  l \in { m \in ModuleLists(n - 1) : Len(m) = n - 1 },
                  name \in ModuleNames,
                  fl \in ModuleFileLists(n, MaxModuleFiles) }

\* no environment, one with two of the five fields, one with all five
EnvironmentMaps ==
    { <<>>,
      [dev |-> [main_tf |-> "dev main", provider_tf |-> "dev provider"]],
      [dev |-> [main_tf |-> "dev main", variables_tf |-> "dev variables",
                outputs_tf |-> "dev outputs", provider_tf |-> "dev provider",
                terraform_tfvars_example |-> "dev example"]] }

WriterBundles ==
    { [terraform_version |-> "1.5", modules |-> ms, environments |-> es] :
        ms \in ModuleLists(MaxModules), es \in EnvironmentMaps }

InitWriter ==
    /\ pc = "save_terraform_files"
    /\ arg \in WriterBundles
    /\ ret = FALSE
    /\ NoRun

EvalSaveTerraformFiles ==
    /\ pc = "save_terraform_files"
    /\ files' = SaveTerraformFiles(files, arg)
    /\ pc' = "saved"
    /\ UNCHANGED << max_validation_iterations, sessions, calls, RunLocals,
                    LoopLocals, result, arg, ret >>

NextWriter == EvalSaveTerraformFiles

SpecWriter == InitWriter /\ [][NextWriter]_vars

(***************************************************************************)
(* save_documentation_to_files evaluated on its own, into an empty output  *)
(* directory: the README is empty or not, every optional field is None,    *)
(* the empty string or a text                                              *)
(***************************************************************************)
OptionalTexts(name) == { None, <<>>, << name, "text" >> }

DocumentationOutputs ==
    { [readme |-> r, deployment_guide |-> d, architecture_diagram |-> a,
       security_guide |-> g, troubleshooting |-> t] :
        r \in { <<>>, << "#", "Title" >> },
        d \in OptionalTexts("deployment"), a \in OptionalTexts("diagram"),
        g \in OptionalTexts("security"), t \in OptionalTexts("troubleshooting") }

InitDocWriter ==
    /\ pc = "save_documentation_to_files"
    /\ arg \in DocumentationOutputs
    /\ ret = FALSE
    /\ NoRun

EvalSaveDocumentationToFiles ==
    /\ pc = "save_documentation_to_files"
    /\ files' = SaveDocumentationToFiles(files, arg)
    /\ ret' = SavedFiles(arg)
    /\ pc' = "docs_saved"
    /\ UNCHANGED << max_validation_iterations, sessions, calls, RunLocals,
                    LoopLocals, result, arg >>

NextDocWriter == EvalSaveDocumentationToFiles

SpecDocWriter == InitDocWriter /\ [][NextDocWriter]_vars

(***************************************************************************)
(* parse_validation_results evaluated on its own, over validator payloads  *)
(* whose list length, field lengths and error_count lie on both sides of   *)
(* the schema's limits, and over exception texts on both sides of the      *)
(* slice taken into the fabricated summary                                 *)
(***************************************************************************)
\* the text of n characters
RECURSIVE Chars(_)
Chars(n) ==
    IF n = 0 THEN ""
    ELSE IF n % 2 = 0 THEN LET half == Chars(n \div 2) IN half \o half
    ELSE Chars(n - 1) \o "c"

\* 1 and the lengths within MaxExcess of a limit
LengthsAround(limit) == {1} \cup ((limit - MaxExcess) .. (limit + MaxExcess))

\* n entries; the last one carries the message and fix under test
RECURSIVE ErrorList(_, _, _)
ErrorList(n, message, fix) ==
    IF n = 0 THEN <<>>
    ELSE IF n = 1 THEN << ValidationError("error", "a.tf", message, fix) >>
    ELSE << Entry("warning") >> \o ErrorList(n - 1, message, fix)

ErrorLists ==
    { <<>> }
    \cup { ErrorList(n, Chars(m), Chars(f)) :
              n \in LengthsAround(SchemaMaxErrors),
              m \in LengthsAround(MessageMaxLength),
              f \in LengthsAround(FixMaxLength) }

ValidatorPayloads ==
    { ValidatorOutput("passed", TRUE, TRUE, errs, cnt, Chars(s)) :
        errs \in ErrorLists,
        cnt \in {0, 1, SchemaMaxErrors},
        s \in LengthsAround(SummaryMaxLength) }
    \cup { [validation_status |-> "passed", syntax_valid |-> TRUE,
            configuration_valid |-> TRUE, error_count |-> cnt,
            summary |-> "no list"] : cnt \in {0, 1} }

\* str(e) of the exception, should the response raise one
DetailTexts ==
    { Chars(n) : n \in LengthsAround(SummaryDetailLength) \cup {2 * SummaryMaxLength} }

ValidatorTexts ==
    { [backend |-> "ok", err |-> e, precond |-> FALSE, reparse |-> FALSE,
       value |-> v, detail |-> t] :
        e \in {"none", "other"}, v \in ValidatorPayloads, t \in DetailTexts }

InitValidator ==
    /\ pc = "parse_validation_results"
    /\ arg \in ValidatorTexts
    /\ ret = FALSE
    /\ NoRun

EvalParseValidationResults ==
    /\ pc = "parse_validation_results"
    /\ ret' = ParseValidationResults(arg)
    /\ pc' = "validated"
    /\ UNCHANGED << max_validation_iterations, sessions, calls, RunLocals,
                    LoopLocals, files, result, arg >>

NextValidator == EvalParseValidationResults

SpecValidator == InitValidator /\ [][NextValidator]_vars

(***************************************************************************)
(* A stage call's two passes one after the other, as in                    *)
(* parse_generated_terraform(self._extract_response_text(events)), over    *)
(* texts of fences, braces, a bracket and whitespace                       *)
(***************************************************************************)
PassAlphabet == { Fence, "{", "}", "[", "\n" }

InitPasses ==
    /\ pc = "extract"
    /\ \E t \in Texts(PassAlphabet, MaxPassTokens) :
         \E loads \in (IF FirstObjectEnd(t) >= 0 THEN BOOLEAN ELSE {FALSE}) :
            arg = [text |-> t, loads |-> loads]
    /\ ret = FALSE
    /\ NoRun

\* _extract_response_text returns; its bare except keeps it from raising
EvalExtract ==
    /\ pc = "extract"
    /\ ret' = [extracted |-> ExtractResponseText(arg.text, arg.loads),
               raised |-> FALSE]
    /\ pc' = "decode_text"
    /\ UNCHANGED << max_validation_iterations, sessions, calls, RunLocals,
                    LoopLocals, files, result, arg >>

\* the decoder strips the fences of what it was handed
EvalStrip ==
    /\ pc = "decode_text"
    /\ ret' = [extracted |-> ret.extracted,
               raised |-> FALSE,
               response |-> StripFences(ret.extracted, {"{", "["})]
    /\ pc' = "passes_done"
    /\ UNCHANGED << max_validation_iterations, sessions, calls, RunLocals,
                    LoopLocals, files, result, arg >>

NextPasses == EvalExtract \/ EvalStrip

SpecPasses == InitPasses /\ [][NextPasses]_vars

(***************************************************************************)
(* The fence stripping of each stage's decoder evaluated on its own, over  *)
(* every text of up to MaxStripTokens tokens                               *)
(***************************************************************************)
\* the first characters for which a decoder adopts a generically fenced text
StageOpeners(stage) == IF stage = "validate" THEN {"{"} ELSE {"{", "["}

\* the tokens the fence stripping tells apart, whitespace, and a word
StripAlphabet == { Fence, "json", "{", "[", "\n", "w" }

InitStrip ==
    /\ pc = "strip"
    /\ arg \in { [stage |-> st, text |-> t] :
                   st \in {"requirements", "architecture", "generate", "validate"},
                   t \in Texts(StripAlphabet, MaxStripTokens) }
    /\ ret = FALSE
    /\ NoRun

EvalStripFences ==
    /\ pc = "strip"
    /\ ret' = StripFences(arg.text, StageOpeners(arg.stage))
    /\ pc' = "stripped"
    /\ UNCHANGED << max_validation_iterations, sessions, calls, RunLocals,
                    LoopLocals, files, result, arg >>

NextStrip == EvalStripFences

SpecStrip == InitStrip /\ [][NextStrip]_vars

(***************************************************************************)
(* The four structured decoders evaluated on their own, over every error   *)
(* class of json.loads, both values of the repair's precondition and both  *)
(* outcomes of the re-parse                                                *)
(***************************************************************************)
DecoderStages == {"requirements", "architecture", "generate", "validate"}

StagePayloads(stage) ==
    IF stage = "requirements" THEN RequirementsPool
    ELSE IF stage = "architecture" THEN ArchitecturePool
    ELSE IF stage = "generate" THEN BundlePool
    ELSE ValidationPool

\* the decoder that run() applies to the response of a stage
Decode(stage, resp) ==
    IF stage = "requirements" THEN ParseRequirements(resp)
    ELSE IF stage = "architecture" THEN ParseArchitecture(resp)
    ELSE IF stage = "generate" THEN ParseGeneratedTerraform(resp)
    ELSE ParseValidationResults(resp)

\* the number of json.loads calls a decoder makes after the first one
\* failed: parse_generated_terraform re-parses once when the repair chosen
\* by the error text applies, the other decoders have no second call
Reparses(stage, resp) ==
    IF stage = "generate" /\ resp.err \in {"delimiter", "unterminated"}
       /\ resp.precond
    THEN 1
    ELSE 0

InitDecoders ==
    /\ pc = "decode"
    /\ arg \in { [stage |-> st, resp |-> r] :
                   st \in DecoderStages,
                   r \in { x \in UNION { ResponsesOver(StagePayloads(t)) : t \in DecoderStages } :
                             x.backend = "ok" } }
    /\ arg.resp.value \in StagePayloads(arg.stage)
    /\ ret = FALSE
    /\ NoRun

EvalDecode ==
    /\ pc = "decode"
    /\ ret' = [result |-> Decode(arg.stage, arg.resp),
               reparses |-> Reparses(arg.stage, arg.resp)]
    /\ pc' = "stage_decoded"
    /\ UNCHANGED << max_validation_iterations, sessions, calls, RunLocals,
                    LoopLocals, files, result, arg >>

NextDecoders == EvalDecode

SpecDecoders == InitDecoders /\ [][NextDecoders]_vars

(***************************************************************************)
(* Properties                                                              *)
(***************************************************************************)
NumCalls(stage) == Cardinality({ i \in DOMAIN calls : calls[i].stage = stage })

LoopStages == {"generate", "validate", "regenerate"}

\* the accept-condition of sec. 4.5: status not failed and no entry of
\* severity error
Accepts(v) ==
    /\ v.validation_status # "failed"
    /\ \A i \in 1..Len(v.errors) : v.errors[i].severity # "error"

\* _validation_loop has returned to run()
LoopReturned == loop_state \in {"Accepted", "Exhausted", "FellThrough"}

\* validation call k has returned a result to the loop
Validated(k) ==
    /\ calls[k].stage = "validate"
    /\ calls[k].outcome \notin {"pending", "unavailable"}

\* the number of validation calls among the first k calls
ValidationsUpTo(k) ==
    Cardinality({ i \in 1..k : calls[i].stage = "validate" })

\* C1: with a maximum N >= 1 the loop issues at most N validation calls and
\* at most N-1 regeneration calls, whatever the validator and the generator
\* answer.
C1_BoundedCalls ==
    max_validation_iterations >= 1 =>
        /\ NumCalls("validate") <= max_validation_iterations
        /\ NumCalls("regenerate") <= max_validation_iterations - 1

C1_Witness ==
    /\ loop_state = "Exhausted"
    /\ max_validation_iterations >= 2
    /\ NumCalls("validate") = max_validation_iterations
    /\ NumCalls("regenerate") = max_validation_iterations - 1

\* C2: whenever the loop has returned, it has returned a bundle and a
\* validation result, and the last call of the loop is the validation call
\* whose prompt carried the returned bundle and whose decoded result is the
\* returned result.
C2_ReturnedPairMatches ==
    LoopReturned =>
        /\ validated_code # Unbound
        /\ final_validation_results # Unbound
        /\ \E k \in DOMAIN calls :
            /\ Validated(k)
            /\ \A j \in (k + 1)..Len(calls) : calls[j].stage \notin LoopStages
            /\ calls[k].prompt = validated_code
            /\ calls[k].value = final_validation_results

C2_Witness ==
    /\ loop_state = "Exhausted"
    /\ NumCalls("regenerate") >= 1
    /\ validated_code # terraform_code

\* C3: should_regenerate(v) is true exactly when the status is failed or some
\* entry has severity error: false for a passed result with only warning
\* and info entries (or none), true whenever an error entry is present.
C3_ShouldRegenerateDecision ==
    pc = "evaluated" =>
        LET hasError == \E i \in 1..Len(arg.errors) : arg.errors[i].severity = "error"
        IN  /\ ret <=> (arg.validation_status = "failed" \/ hasError)
            /\ (arg.validation_status = "passed" /\ ~hasError) => ~ret
            /\ hasError => ret

C3_Witness ==
    /\ pc = "evaluated"
    /\ arg.validation_status = "passed"
    /\ Len(arg.errors) = 2
    /\ arg.errors[1].severity = "warning"
    /\ arg.errors[2].severity = "error"
    /\ ret

\* C4: a validation whose result satisfies the accept-condition ends the
\* loop in Accepted with the bundle that validation was given and with that
\* result, and no generation, regeneration or validation call follows it.
C4_AcceptStopsLoop ==
    \A k \in DOMAIN calls :
        (Validated(k) /\ Accepts(calls[k].value)) =>
            /\ loop_state = "Accepted"
            /\ validated_code = calls[k].prompt
            /\ final_validation_results = calls[k].value
            /\ \A j \in (k + 1)..Len(calls) : calls[j].stage \notin LoopStages

C4_Witness ==
    /\ loop_state = "Accepted"
    /\ iteration = 2
    /\ regenerate = FALSE
    /\ Len(final_validation_results.errors) = 1

\* C5: a validation at iteration = maximum that does not satisfy the
\* accept-condition ends the loop in Exhausted and no regeneration call
\* follows it; with maximum 1 the loop has then made one validation call and
\* no regeneration call and returns the initial bundle.
C5_ExhaustedAtCap ==
    \A k \in DOMAIN calls :
        (/\ Validated(k)
         /\ ValidationsUpTo(k) = max_validation_iterations
         /\ ~Accepts(calls[k].value)) =>
            /\ loop_state = "Exhausted"
            /\ \A j \in (k + 1)..Len(calls) : calls[j].stage # "regenerate"
            /\ max_validation_iterations = 1 =>
                  /\ NumCalls("validate") = 1
                  /\ NumCalls("regenerate") = 0
                  /\ validated_code = terraform_code

C5_Witness ==
    /\ loop_state = "Exhausted"
    /\ max_validation_iterations = 1
    /\ pc = "done"

\* C6: the initial generation call, every regeneration call and every
\* validation call carry one and the same session id; that id is not the id
\* of the requirements, architecture or documentation call, and those three
\* are pairwise different.
C6_SharedLoopSession ==
    \A i, j \in DOMAIN calls :
        /\ (calls[i].stage \in LoopStages /\ calls[j].stage \in LoopStages)
              => calls[i].session = calls[j].session
        /\ (calls[i].stage # calls[j].stage
            /\ ~(calls[i].stage \in LoopStages /\ calls[j].stage \in LoopStages))
              => calls[i].session # calls[j].session

C6_Witness ==
    /\ pc = "done"
    /\ NumCalls("regenerate") >= 1

\* the pairs (stage of a call, stage of the next call) of sec. 4.5 and 4.6
StageSuccession ==
    { << "requirements", "architecture" >>, << "architecture", "generate" >>,
      << "generate", "validate" >>, << "validate", "regenerate" >>,
      << "regenerate", "validate" >>, << "validate", "documentation" >> }

\* C7: the calls are issued in the order requirements, architecture, initial
\* generation, validation loop, documentation; a call is issued only when the
\* call before it has returned and its response was decoded; a run that
\* completes has made exactly one requirements, one architecture, one initial
\* generation and one documentation call.
C7_StageOrder ==
    /\ calls # <<>> => calls[1].stage = "requirements"
    /\ \A i \in 1..(Len(calls) - 1) :
        /\ << calls[i].stage, calls[i + 1].stage >> \in StageSuccession
        /\ calls[i].outcome \notin {"pending", "unavailable"}
        /\ calls[i].value # Unbound
        /\ calls[i].stage # "validate" => calls[i].outcome = "ok"
    /\ pc = "done" =>
        \A st \in {"requirements", "architecture", "generate", "documentation"} :
            NumCalls(st) = 1

C7_Witness ==
    /\ pc = "done"
    /\ NumCalls("validate") = 2
    /\ NumCalls("regenerate") = 1

\* C8: when the loop has ended Exhausted, run() has gone on to the
\* documentation call with a result that still fails; the only exception that
\* can then leave run() is a failure of that documentation call, and once the
\* call has returned run() has written every file of the still-failing bundle
\* and the README and has returned the result.
C8_ExhaustedContinues ==
    loop_state = "Exhausted" =>
        /\ ~Accepts(final_validation_results)
        /\ NumCalls("documentation") = 1
        /\ pc \in {"documentation", "done", "raised"}
        /\ pc = "raised" =>
              /\ calls[Len(calls)].stage = "documentation"
              /\ calls[Len(calls)].outcome = "unavailable"
        /\ pc = "done" =>
              /\ \A i \in DOMAIN TerraformWrites(validated_code) :
                    [path |-> TerraformWrites(validated_code)[i].path,
                     content |-> TerraformWrites(validated_code)[i].content] \in files
              /\ [path |-> << "README.md" >>, content |-> documentation.readme] \in files
              /\ result # Unbound
              /\ result.terraform_code = validated_code
              /\ result.validation_results = final_validation_results

C8_Witness ==
    /\ loop_state = "Exhausted"
    /\ pc = "done"
    /\ NumCalls("regenerate") >= 1

\* C9 (as claimed): a stage call whose response is a backend failure, is not
\* decodable or violates the schema is the last call of the run, run() has
\* raised, and no file has been written.
C9_AnyFailedCallRaises ==
    \A i \in DOMAIN calls :
        calls[i].outcome \in {"malformed", "repairable", "schema", "unavailable"} =>
            /\ i = Len(calls)
            /\ pc = "raised"
            /\ files = {}

\* C10: a response to the initial generation call or to a regeneration call
\* that is not decodable even after the repairs makes run() raise: that call
\* is the last call of the run, nothing was decoded from it, the loop has
\* not returned a bundle, nothing is written and nothing is returned.
C10_UndecodableGenerationIsFatal ==
    \A i \in DOMAIN calls :
        (calls[i].stage \in {"generate", "regenerate"}
         /\ calls[i].outcome = "malformed") =>
            /\ i = Len(calls)
            /\ pc = "raised"
            /\ calls[i].value = Unbound
            /\ ~LoopReturned
            /\ validated_code = Unbound
            /\ files = {}
            /\ result = Unbound

C10_Witness ==
    /\ pc = "raised"
    /\ calls # <<>>
    /\ calls[Len(calls)].stage = "regenerate"
    /\ calls[Len(calls)].outcome = "malformed"
    /\ current_code # Unbound

\* C11 (as claimed): a validation call whose response cannot be decoded is
\* the last call of the run: run() has raised at the validation stage, no
\* validation result stands in for the response, and no regeneration call
\* follows.
C11_UndecodableValidationIsFatal ==
    \A i \in DOMAIN calls :
        (calls[i].stage = "validate" /\ calls[i].outcome = "malformed") =>
            /\ i = Len(calls)
            /\ pc = "raised"
            /\ calls[i].value = Unbound
            /\ \A detail \in {"Expecting value"} :
                 validation_results # ParseErrorResult(detail)

\* call i was answered by well-formed JSON that misses a required field of
\* its stage's schema
SchemaMismatch(i) ==
    LET c == calls[i] IN
    \/ c.stage = "requirements" /\ c.outcome = "ok"
       /\ ~RequirementsOutputValid(c.value)
    \/ c.stage = "architecture" /\ c.outcome = "ok"
       /\ ~ArchitectureOutputValid(c.value)
    \/ c.stage \in {"generate", "regenerate"} /\ c.outcome = "ok"
       /\ ~GeneratorOutputValid(c.value)
    \/ c.stage = "validate" /\ c.outcome = "schema"

\* C12 (as claimed): a call answered by well-formed JSON that misses a
\* required field of its stage's schema is the last call of the run, run()
\* has raised, and the record was not decoded and handed to the next stage.
C12_SchemaMismatchIsFatal ==
    \A i \in DOMAIN calls :
        SchemaMismatch(i) =>
            /\ i = Len(calls)
            /\ pc = "raised"
            /\ calls[i].value = Unbound

\* the keys of the dict run() returns: five artifacts and the output directory
ArtifactKeys ==
    {"requirements", "architecture", "terraform_code", "validation_results",
     "documentation", "output_dir"}

\* C13 (as claimed): after the loop ended Exhausted, the returned result has
\* a field of its own, beside the artifacts, that marks the non-convergence.
C13_ExhaustedHasWarningField ==
    (pc = "done" /\ loop_state = "Exhausted") =>
        (DOMAIN result) \ ArtifactKeys # {}

\* C13 (amended): the returned result has no field beside the five
\* artifacts and the output directory; the non-convergence shows in its
\* validation_results, which fail the accept-condition exactly when the loop
\* ended Exhausted and meet it exactly when the loop ended Accepted.
C13_ExhaustedVisibleInResult ==
    pc = "done" =>
        /\ DOMAIN result = ArtifactKeys
        /\ loop_state \in {"Accepted", "Exhausted"}
        /\ loop_state = "Exhausted" <=> ~Accepts(result.validation_results)

\* an Exhausted run whose returned status is "passed": the status alone
\* does not tell it from an Accepted run, the error entry does
C13_Witness ==
    /\ pc = "done"
    /\ loop_state = "Exhausted"
    /\ result.validation_results.validation_status = "passed"

\* the calls that have been issued and have not returned
Outstanding == { i \in DOMAIN calls : calls[i].outcome = "pending" }

\* C14: at most one backend call is outstanding, and it is the call issued
\* last: every call issued before it has returned, whatever stage or loop
\* iteration it belongs to; run() is suspended on the outstanding call and on
\* no other.
C14_OneCallOutstanding ==
    /\ Cardinality(Outstanding) <= 1
    /\ \A i \in Outstanding :
         /\ i = Len(calls)
         /\ pc = calls[i].stage
    /\ pc \in {"raised", "done"} => Outstanding = {}

\* the second iteration's validation call is in flight after the first
\* iteration's validation and regeneration calls have returned
C14_Witness ==
    /\ pc = "validate"
    /\ Outstanding = { Len(calls) }
    /\ NumCalls("validate") = 2
    /\ NumCalls("regenerate") = 1

\* the positions of the feedback at which entry k of the input is rendered
RenderedAt(k) ==
    { p \in DOMAIN ret : /\ ret[p].kind = "entry"
                         /\ ret[p].file = arg.errors[k].file
                         /\ ret[p].message = arg.errors[k].message }

\* the input entries of the given severities
EntriesWith(sevs) == { k \in DOMAIN arg.errors : arg.errors[k].severity \in sevs }

\* C15: in the feedback every error entry and every warning entry of the
\* input is rendered exactly once and no info entry is rendered, nothing
\* else is rendered as an entry, every error entry comes before every
\* warning entry, and two entries of the same severity keep their order.
C15_FeedbackOrder ==
    pc = "formatted" =>
        /\ \A k \in EntriesWith({"error", "warning"}) : Cardinality(RenderedAt(k)) = 1
        /\ \A k \in EntriesWith({"info"}) : RenderedAt(k) = {}
        /\ \A p \in DOMAIN ret :
             ret[p].kind = "entry" =>
                \E k \in EntriesWith({"error", "warning"}) : p \in RenderedAt(k)
        /\ \A k, l \in EntriesWith({"error", "warning"}) :
             \A p \in RenderedAt(k), q \in RenderedAt(l) :
                /\ (arg.errors[k].severity = "error"
                    /\ arg.errors[l].severity = "warning") => p < q
                /\ (arg.errors[k].severity = arg.errors[l].severity /\ k < l)
                      => p < q

\* a warning ahead of two errors in the input
C15_Witness ==
    /\ pc = "formatted"
    /\ Len(arg.errors) >= 3
    /\ arg.errors[1].severity = "warning"
    /\ arg.errors[2].severity = "error"
    /\ arg.errors[3].severity = "error"
    /\ Cardinality({ p \in DOMAIN ret : ret[p].kind = "entry" }) = 3

\* C16 (as claimed): every entry the feedback renders is the line
\* "- [file] message" followed by the indented line "Fix: fix" with the fix
\* text of that entry.
C16_EveryEntryHasFixLine ==
    pc = "formatted" =>
        \A p \in DOMAIN ret :
            ret[p].kind = "entry" =>
                /\ ret[p].label = "Fix"
                /\ \E k \in DOMAIN arg.errors :
                     p \in RenderedAt(k) /\ ret[p].fix = arg.errors[k].fix

\* C16 (amended): every entry the feedback renders is the line
\* "- [file] message" followed by an indented line with the fix text of that
\* entry, labelled "Fix:" for an error entry and "Suggestion:" for a warning
\* entry.  For the result {failed, one error entry a.tf, x, y}
\* should_regenerate is true and the feedback renders "- [a.tf] x" followed
\* by the indented "Fix: y".
C16_EntryRendering ==
    pc = "formatted" =>
        /\ \A p \in DOMAIN ret :
             ret[p].kind = "entry" =>
                \E k \in DOMAIN arg.errors :
                    /\ p \in RenderedAt(k)
                    /\ ret[p].fix = arg.errors[k].fix
                    /\ arg.errors[k].severity = "error" => ret[p].label = "Fix"
                    /\ arg.errors[k].severity = "warning" =>
                          ret[p].label = "Suggestion"
        /\ arg = ScenarioResult =>
             /\ ShouldRegenerate(arg)
             /\ \E p \in DOMAIN ret :
                  ret[p] = [kind |-> "entry", file |-> "a.tf", message |-> "x",
                            label |-> "Fix", fix |-> "y"]

\* the scenario's result has been formatted
C16_Witness ==
    /\ pc = "formatted"
    /\ arg = ScenarioResult
    /\ Len(ret) = 3

\* a heading marker: "#" at the start of the text or of one of its lines
HasHeadingMarker(t) ==
    StartsWith(t, << "#" >>) \/ Contains(t, << "\n", "#" >>)

FenceOffsets(t) == { i \in 0..(Len(t) - 1) : t[i + 1] = Fence }

\* the offset just behind the first json fence marker of t
AfterJsonMarker(t) ==
    LET M == { i \in FenceOffsets(t) : i + 2 <= Len(t) /\ t[i + 2] = "json" }
    IN  (CHOOSE i \in M : \A j \in M : i <= j) + 2

\* the fences of t behind its first json fence marker
ClosingFences(t) == { i \in FenceOffsets(t) : i >= AfterJsonMarker(t) }

\* t holds a json fence marker, the fence that closes it, and behind that a
\* further fenced block
JsonFenceThenFenced(t) ==
    /\ \E i \in FenceOffsets(t) : i + 2 <= Len(t) /\ t[i + 2] = "json"
    /\ Cardinality(ClosingFences(t)) >= 3

EnvironmentFile ==
    [main_tf |-> "main.tf", variables_tf |-> "variables.tf",
     outputs_tf |-> "outputs.tf", provider_tf |-> "provider.tf",
     terraform_tfvars_example |-> "terraform.tfvars.example"]

\* the (path, content) pairs of a Code Bundle: one for every file of every
\* module and one for every environment field that is present
BundlePairs(code) ==
    UNION { { [path |-> << "modules", code.modules[i].module_name,
                           code.modules[i].files[j].filename >>,
               content |-> code.modules[i].files[j].content] :
                j \in DOMAIN code.modules[i].files } :
            i \in DOMAIN code.modules }
    \cup UNION { { [path |-> << "environments", e, EnvironmentFile[k] >>,
                    content |-> code.environments[e][k]] :
                    k \in DOMAIN code.environments[e] \cap DOMAIN EnvironmentFile } :
                 e \in DOMAIN code.environments }

\* the Terraform part of a file tree
TerraformTree(fs) == { f \in fs : f.path[1] \in {"modules", "environments"} }

\* the last validation call of the run
LastValidation ==
    CHOOSE k \in DOMAIN calls :
        /\ calls[k].stage = "validate"
        /\ \A j \in DOMAIN calls : calls[j].stage = "validate" => j <= k

\* C19: when run() has returned, its result has exactly the five artifacts
\* and the output directory: the decoded values of the requirements, the
\* architecture and the documentation call, and as bundle and validation
\* result the pair the loop returned, which is the bundle given to the last
\* validation call and that call's result.  The Terraform files on disk are
\* the files of that bundle and of no other.
C19_ResultAndFilesFromFinalBundle ==
    pc = "done" =>
        /\ DOMAIN result = ArtifactKeys
        /\ result.requirements = calls[1].value
        /\ result.architecture = calls[2].value
        /\ result.documentation = calls[Len(calls)].value
        /\ result.terraform_code = validated_code
        /\ result.validation_results = final_validation_results
        /\ result.terraform_code = calls[LastValidation].prompt
        /\ result.validation_results = calls[LastValidation].value
        /\ TerraformTree(files) = BundlePairs(calls[LastValidation].prompt)

\* a run that returned after a regeneration replaced the initial bundle
C19_Witness ==
    /\ pc = "done"
    /\ NumCalls("regenerate") >= 1
    /\ result.terraform_code # terraform_code
    /\ TerraformTree(files) # BundlePairs(terraform_code)

\* the paths of a set of (path, content) pairs
Paths(pairs) == { f.path : f \in pairs }

\* no two files of the bundle are written to the same path
DistinctPaths(code) ==
    /\ \A p, q \in BundlePairs(code) : p.path = q.path => p = q
    /\ \A i \in DOMAIN code.modules :
         \A j, k \in DOMAIN code.modules[i].files :
            code.modules[i].files[j].filename = code.modules[i].files[k].filename
               => j = k

\* C20 (as claimed): after any bundle was written into an empty directory,
\* the tree is exactly the set of (path, content) pairs of the bundle.
C20_TreeIsBundlePairs ==
    pc = "saved" => files = BundlePairs(arg)

\* of the files of the bundle written to path p, the one written last
LastWritten(code, p) ==
    LET writes == TerraformWrites(code)
        last == CHOOSE i \in DOMAIN writes :
                    /\ writes[i].path = p
                    /\ \A j \in DOMAIN writes : writes[j].path = p => j <= i
    IN  [path |-> p, content |-> writes[last].content]

\* C20 (amended): after a bundle in which no two module files have the same
\* module name and file name was written into an empty directory, the tree
\* is exactly the set of (path, content) pairs of the bundle.  For any
\* bundle the tree holds one file for every path of the bundle and nothing
\* else, and of the files that share a path only the one written last is
\* kept.
C20_TreeOfDistinctPaths ==
    pc = "saved" =>
        /\ DistinctPaths(arg) => files = BundlePairs(arg)
        /\ files \subseteq BundlePairs(arg)
        /\ Paths(files) = Paths(BundlePairs(arg))
        /\ \A f \in files : f = LastWritten(arg, f.path)

\* two modules of the same name, each with a main.tf, have been written
C20_Witness ==
    /\ pc = "saved"
    /\ Len(arg.modules) = 2
    /\ arg.modules[1].module_name = arg.modules[2].module_name
    /\ ~DistinctPaths(arg)
    /\ Cardinality(files) < Cardinality(BundlePairs(arg))
    /\ "dev" \in DOMAIN arg.environments

\* the file of each optional field of a Documentation Output
OptionalFile ==
    [deployment_guide |-> "DEPLOYMENT.md", security_guide |-> "SECURITY.md",
     troubleshooting |-> "TROUBLESHOOTING.md",
     architecture_diagram |-> "architecture.mmd"]

\* C21: save_documentation_to_files always writes README.md with the readme
\* text; it writes the file of an optional field, with that field's text,
\* exactly when the field is neither None nor empty; it writes nothing else,
\* and the returned map has one entry per file written, each naming a
\* different written file.
C21_DocumentationFiles ==
    pc = "docs_saved" =>
        /\ [path |-> << "README.md" >>, content |-> arg.readme] \in files
        /\ \A k \in DOMAIN OptionalFile :
             IF arg[k] # None /\ arg[k] # <<>>
             THEN [path |-> << OptionalFile[k] >>, content |-> arg[k]] \in files
             ELSE << OptionalFile[k] >> \notin Paths(files)
        /\ Paths(files) \subseteq
             { << "README.md" >> } \cup { << OptionalFile[k] >> : k \in DOMAIN OptionalFile }
        /\ Cardinality(files) = Cardinality(Paths(files))
        /\ Cardinality(DOMAIN ret) = Cardinality(files)
        /\ { ret[k] : k \in DOMAIN ret } = Paths(files)

\* an empty README, one optional field empty, one None and two with text
C21_Witness ==
    /\ pc = "docs_saved"
    /\ arg.readme = <<>>
    /\ arg.deployment_guide = <<>>
    /\ arg.security_guide = None
    /\ Cardinality(files) = 3
    /\ DOMAIN ret = {"readme", "troubleshooting", "diagram"}

\* the generation and regeneration calls that have returned a bundle
Generations ==
    { i \in DOMAIN calls : /\ calls[i].stage \in {"generate", "regenerate"}
                           /\ calls[i].outcome = "ok" }

\* C22: the loop's current bundle is, in full, the bundle decoded from the
\* response of the latest generation or regeneration call that returned one:
\* a regeneration replaces it by the freshly decoded bundle, and nothing else
\* (validation, feedback formatting, a failed call) changes it.  Every
\* validation call is given that bundle.
C22_CurrentBundleIsLatestDecoded ==
    /\ Generations = {} => current_code = Unbound
    /\ Generations # {} =>
         LET last == CHOOSE i \in Generations : \A j \in Generations : j <= i
         IN  /\ current_code = calls[last].value
             /\ \A k \in DOMAIN calls :
                  (calls[k].stage = "validate" /\ k > last) =>
                     calls[k].prompt = calls[last].value
    /\ \A k \in DOMAIN calls :
         calls[k].stage = "validate" =>
            /\ (k - 1) \in Generations
            /\ calls[k].prompt = calls[k - 1].value

\* a regeneration has replaced the initial bundle by a different one, which
\* is being validated
C22_Witness ==
    /\ pc = "validate"
    /\ NumCalls("regenerate") = 1
    /\ current_code # terraform_code
    /\ current_code.modules # terraform_code.modules

\* _validation_loop has been entered: the initial generation returned a
\* bundle
LoopEntered == \E i \in DOMAIN calls : calls[i].stage = "generate" /\ calls[i].outcome = "ok"

LoopCalls == SelectSeq(calls, LAMBDA c : c.session = GeneratorSession)

\* C24: the calls under the loop's session id are one generation call, then
\* alternately validation and regeneration calls.  Every regeneration call
\* comes directly after a validation whose result fails the accept-condition
\* and its prompt is the feedback formatted from that result; a regeneration
\* that returned a bundle is directly followed by a validation call given
\* that bundle (one that failed is the last call of the run).  Every
\* validation call comes directly after the generation or a regeneration.
C24_LoopCallSequence ==
    LET L == LoopCalls IN
    /\ \A i \in DOMAIN L : (L[i].stage = "generate") <=> (i = 1)
    /\ \A i \in DOMAIN L : L[i].stage \in LoopStages
    /\ \A i \in DOMAIN L :
         L[i].stage = "validate" =>
            /\ L[i - 1].stage \in {"generate", "regenerate"}
            /\ L[i].prompt = L[i - 1].value
    /\ \A i \in DOMAIN L :
         L[i].stage = "regenerate" =>
            /\ L[i - 1].stage = "validate"
            /\ L[i - 1].outcome \notin {"pending", "unavailable"}
            /\ ~Accepts(L[i - 1].value)
            /\ L[i].prompt = GetFeedbackForRegeneration(L[i - 1].value)
            /\ L[i].outcome = "ok" =>
                  /\ i < Len(L)
                  /\ L[i + 1].stage = "validate"
                  /\ L[i + 1].prompt = L[i].value
            /\ L[i].outcome \notin {"ok", "pending"} =>
                  /\ i = Len(L)
                  /\ pc = "raised"

\* generation, validation, regeneration, validation, where the two
\* validation results differ and the feedback is the first one's
C24_Witness ==
    /\ pc = "done"
    /\ Len(LoopCalls) = 4
    /\ LoopCalls[3].stage = "regenerate"
    /\ LoopCalls[2].value # LoopCalls[4].value
    /\ LoopCalls[3].prompt = GetFeedbackForRegeneration(LoopCalls[2].value)
    /\ LoopCalls[2].value.validation_status = "passed"

\* validation call k returned a response that json.loads rejects or that
\* violates the ValidatorOutput schema
Undecodable(k) ==
    /\ calls[k].stage = "validate"
    /\ calls[k].outcome \in {"malformed", "schema"}

ReportedPassed(v) == v.validation_status = "passed"

\* C26: whenever run() reports the outcome of the loop as passed, the loop
\* ended Accepted and the accept-condition holds for the returned validation
\* result; an Exhausted loop is never reported as passed.
C26_PassedReportMeansAccepted ==
    (LoopReturned /\ ReportedPassed(final_validation_results)) =>
        /\ loop_state = "Accepted"
        /\ Accepts(final_validation_results)

Terminated == pc \in {"done", "raised"}

\* C28: if every backend call eventually returns, a run with a maximum of
\* 1 or more eventually terminates: run() returns its result or raises.
\* The validate/regenerate cycle ends whatever the validator answers.
C28_RunTerminates ==
    (max_validation_iterations >= 1) => <>Terminated

\* a run that went through the whole cycle (every validation answered with
\* a result that asks for regeneration) and returned
C28_Witness ==
    /\ pc = "done"
    /\ max_validation_iterations = MaxIterations
    /\ NumCalls("validate") = MaxIterations
    /\ NumCalls("regenerate") = MaxIterations - 1
    /\ loop_state = "Exhausted"
    /\ Len(calls) < MaxCalls

\* the response given to parse_validation_results was decoded as it stands:
\* json.loads and the schema accepted it
HandedOnAsDelivered ==
    /\ pc = "validated"
    /\ ~ret.raised
    /\ arg.err = "none"
    /\ ret.value.summary = arg.value.summary

\* C29 (as claimed): every validation result the decoder hands on has
\* error_count equal to the number of entries of its errors list; a response
\* whose count differs from the list length is not handed on as delivered.
C29_ErrorCountEqualsLength ==
    pc = "validated" =>
        /\ ~ret.raised => ret.value.error_count = Len(ret.value.errors)
        /\ (arg.err = "none"
              /\ arg.value.error_count # Len(Get(arg.value, "errors", <<>>)))
           => ~HandedOnAsDelivered

\* C29 (amended): a fabricated result has error_count 1 and one entry.  A
\* response that json.loads and the schema accept is handed on with the
\* error_count and the errors list it was delivered with, whether or not
\* the two agree.
C29_ErrorCountAsDelivered ==
    pc = "validated" =>
        /\ ~ret.raised
        /\ HandedOnAsDelivered =>
              /\ ret.value.error_count = arg.value.error_count
              /\ ret.value.errors = Get(arg.value, "errors", <<>>)
        /\ ~HandedOnAsDelivered =>
              /\ ret.value.error_count = 1
              /\ Len(ret.value.errors) = 1

\* ten entries delivered with error_count 0, handed on unchanged
C29_Witness ==
    /\ HandedOnAsDelivered
    /\ Len(ret.value.errors) = SchemaMaxErrors
    /\ ret.value.error_count = 0

\* C30: every validation result the decoder hands on, fabricated ones
\* included, has at most 10 entries, each with a message and a fix of at
\* most 100 characters, and a summary of at most 200 characters.
C30_ResultWithinLimits ==
    pc = "validated" =>
        /\ ~ret.raised
        /\ Len(ret.value.errors) <= 10
        /\ \A i \in 1..Len(ret.value.errors) :
             /\ Len(ret.value.errors[i].message) <= 100
             /\ Len(ret.value.errors[i].fix) <= 100
        /\ Len(ret.value.summary) <= 200

\* a payload with a message one character too long, answered by the
\* fabricated result whose summary holds the cut exception text
C30_Witness ==
    /\ pc = "validated"
    /\ arg.err = "none"
    /\ Len(Get(arg.value, "errors", <<>>)) = SchemaMaxErrors
    /\ Len(arg.value.errors[SchemaMaxErrors].message) = MessageMaxLength + 1
    /\ Len(arg.detail) > SummaryDetailLength
    /\ Len(ret.value.summary) = Len("Validation error: ") + SummaryDetailLength
    /\ Len(ret.value.errors) = 1

\* validation call k returned a schema-conforming result with status failed
\* and no entry of severity error or warning
FailedWithoutFindings(k) ==
    /\ calls[k].stage = "validate"
    /\ calls[k].outcome = "ok"
    /\ calls[k].value.validation_status = "failed"
    /\ \A i \in 1..Len(calls[k].value.errors) :
         calls[k].value.errors[i].severity = "info"

\* C31: a validation result with status failed and no error or warning
\* entry (an empty list, or info entries only), returned in a pass that is
\* not the last one, is directly followed by a regeneration call, and the
\* feedback of that call is the header line alone: no section heading and
\* no entry.
C31_HeaderOnlyFeedback ==
    \A k \in DOMAIN calls :
        (FailedWithoutFindings(k)
           /\ ValidationsUpTo(k) < max_validation_iterations) =>
            /\ k < Len(calls)
            /\ calls[k + 1].stage = "regenerate"
            /\ Len(calls[k + 1].prompt) = 1
            /\ calls[k + 1].prompt[1].kind = "line"
            /\ calls[k + 1].prompt[1].message =
                 "The Terraform code has the following issues that need to be fixed:"

\* a failed result whose only entry is an info entry, answered by a
\* regeneration call whose feedback is the header line
C31_Witness ==
    \E k \in DOMAIN calls :
        /\ FailedWithoutFindings(k)
        /\ Len(calls[k].value.errors) = 1
        /\ k < Len(calls)
        /\ calls[k + 1].stage = "regenerate"
        /\ Len(calls[k + 1].prompt) = 1

\* the prompt carries the value under the name of the parameter of
\* _generate_documentation that holds it
Carries(prompt, name, value) ==
    /\ name \in DOMAIN prompt
    /\ prompt[name] = value

\* C32: the prompt of the documentation call is built from the architecture
\* summary, the bundle the loop returned and the validation result the loop
\* returned: each of the three is part of it.
C32_DocumentationPromptInputs ==
    \A i \in DOMAIN calls :
        calls[i].stage = "documentation" =>
            /\ \A k \in DOMAIN ArchSummary(architecture) :
                 Carries(calls[i].prompt, k, ArchSummary(architecture)[k])
            /\ Carries(calls[i].prompt, "terraform_code", validated_code)
            /\ Carries(calls[i].prompt, "validation_results",
                       final_validation_results)

\* json.loads failed on the response with the given error class
FailedWith(class) == arg.resp.err = class

\* the repair named for the error class of the response applies: always for
\* a missing delimiter, with an odd quote count for an unterminated string
RepairNamed ==
    \/ FailedWith("delimiter")
    \/ FailedWith("unterminated") /\ arg.resp.precond

RepairApplies ==
    /\ arg.stage = "generate"
    /\ arg.resp.err \in {"delimiter", "unterminated"}
    /\ arg.resp.precond

GenericFenceOnly(t) ==
    /\ \E i \in DOMAIN t : t[i] = Fence
    /\ ~\E i \in 1..(Len(t) - 1) : t[i] = Fence /\ t[i + 1] = "json"

\* the positions of the first fence marker of a text and of the next one
\* after it (0 when there is none)
FirstFence(t) ==
    IF \E i \in DOMAIN t : t[i] = Fence
    THEN CHOOSE i \in DOMAIN t : t[i] = Fence /\ \A j \in 1..(i - 1) : t[j] # Fence
    ELSE 0

SecondFence(t) ==
    IF \E i \in (FirstFence(t) + 1)..Len(t) : t[i] = Fence
    THEN CHOOSE i \in (FirstFence(t) + 1)..Len(t) :
            t[i] = Fence /\ \A j \in (FirstFence(t) + 1)..(i - 1) : t[j] # Fence
    ELSE 0

\* the trimmed text between the two, <<>> when the fence is not closed
FencedText(t) ==
    IF SecondFence(t) > 0
    THEN Strip(SubSeq(t, FirstFence(t) + 1, SecondFence(t) - 1))
    ELSE <<>>

\* C34: for a response that has a fence marker and no json fence marker,
\* the decoder of each of the four stages returns either the fenced text or
\* the trimmed response; it returns the fenced text only if that text begins
\* with "{" or "[" (the requirements, architecture and code bundle decoders
\* exactly then, the validation decoder exactly when it begins with "{"),
\* and in every other case the trimmed response as it was.
C34_GenericFenceAdoption ==
    (pc = "stripped" /\ GenericFenceOnly(arg.text)) =>
        LET fenced == FencedText(arg.text)
            adopted == ret # Strip(arg.text)
        IN  /\ ret \in { fenced, Strip(arg.text) }
            /\ adopted => /\ fenced # <<>>
                          /\ fenced[1] \in {"{", "["}
            /\ adopted <=> /\ fenced # <<>>
                            /\ fenced[1] \in StageOpeners(arg.stage)

\* a fenced list: adopted by the code bundle decoder
C34_Witness ==
    /\ pc = "stripped"
    /\ arg.stage = "generate"
    /\ arg.text = << "w", Fence, "[", Fence >>
    /\ ret = << "[" >>

\* the number of tokens b among positions lo..hi of t
CountOf(t, b, lo, hi) == Cardinality({ i \in lo..hi : t[i] = b })

\* the first "{" of t and the first position at which the braces opened
\* from there on are all closed (0 when there is none)
ObjectStart(t) ==
    IF \E i \in DOMAIN t : t[i] = "{"
    THEN CHOOSE i \in DOMAIN t : t[i] = "{" /\ \A j \in 1..(i - 1) : t[j] # "{"
    ELSE 0

ObjectEnd(t) ==
    LET a == ObjectStart(t)
        closed(b) == CountOf(t, "{", a, b) = CountOf(t, "}", a, b)
    IN  IF a > 0 /\ \E b \in a..Len(t) : closed(b)
        THEN CHOOSE b \in a..Len(t) : closed(b) /\ \A c \in a..(b - 1) : ~closed(c)
        ELSE 0

\* C35 (as claimed): for a text without a fence marker the two passes do
\* not raise and the decoder is left with the trimmed text, unchanged.
C35_NoFenceIsNoOp ==
    (pc = "passes_done" /\ ~\E i \in DOMAIN arg.text : arg.text[i] = Fence) =>
        /\ ~ret.raised
        /\ ret.response = Strip(arg.text)

\* C35 (amended): for a text without a fence marker the two passes do not
\* raise.  If the text holds a balanced {...} and json.loads accepts the
\* first one, the decoder is left with that object alone and the text
\* around it is dropped; otherwise it is left with the trimmed text,
\* unchanged.
C35_NoFenceObjectOrText ==
    (pc = "passes_done" /\ ~\E i \in DOMAIN arg.text : arg.text[i] = Fence) =>
        /\ ~ret.raised
        /\ ret.response =
             IF ObjectEnd(arg.text) > 0 /\ arg.loads
             THEN SubSeq(arg.text, ObjectStart(arg.text), ObjectEnd(arg.text))
             ELSE Strip(arg.text)

\* an object between two closing braces: the decoder is left with the object
C35_Witness ==
    /\ pc = "passes_done"
    /\ arg.text = << "}", "\n", "{", "}", "}" >>
    /\ arg.loads
    /\ ret.response = << "{", "}" >>

\* C36: the decoder's fence stripping returns the output of
\* _extract_response_text unchanged apart from trimming; in particular a
\* balanced {...} that the first pass extracted because json.loads accepts
\* it is handed to json.loads as it is.
C36_PassesAgree ==
    pc = "passes_done" => ret.response = Strip(ret.extracted)

\* C37: session initialization, for the four session ids, is over before
\* the first stage call is issued, and whichever of the four sessions could
\* be neither created nor fetched, the run goes on: the requirements call is
\* issued, the run aborts only at a stage call or in the loop, never at
\* initialization, and a run that returns has gone through every stage.
C37_SessionFailuresSwallowed ==
    /\ sessions \subseteq {"requirements", "architecture", "validation_loop",
                          "documentation"}
    /\ (pc = "start") <=> (calls = <<>>)
    /\ pc = "start" => sessions = {}
    /\ pc # "start" =>
          /\ calls[1].stage = "requirements"
          /\ \A i \in DOMAIN calls :
               calls[i].session \in {"requirements", "architecture",
                                     "validation_loop", "documentation"}
    /\ pc = "raised" =>
          \/ calls[Len(calls)].outcome \in {"unavailable", "malformed",
                                            "repairable"}
          \/ loop_state = "Unbound"
    /\ pc = "done" =>
          /\ \A st \in {"requirements", "architecture", "generate",
                        "documentation"} : NumCalls(st) = 1
          /\ NumCalls("validate") >= 1

\* none of the four sessions could be created or fetched, and the run
\* returned its result after a regeneration
C37_Witness ==
    /\ sessions = {}
    /\ pc = "done"
    /\ result # Unbound
    /\ NumCalls("regenerate") = 1

====
